---- MODULE Spec2Model ----
(***************************************************************************)
(* Model of the two remediation examples of security-assistant:            *)
(*   remediation/code_examples/path_traversal_fix.rs  (canonicalize, then  *)
(*     check containment, then read the file), and                         *)
(*   remediation/code_examples/sql_injection_fix.rs   (prepare a fixed     *)
(*     query text, bind the value as a parameter).                         *)
(* The filesystem and the database are the environment the snippets run    *)
(* against; std::fs::canonicalize is modelled as realpath(3): a walk over  *)
(* the components that follows symbolic links.                             *)
(***************************************************************************)
EXTENDS Naturals, Sequences, FiniteSets, TLC

VARIABLES fs, conn, kind, filename, username, pc, base_dir, requested_path,
          checked, resolved, contents, stmt, executed, rows, outcome,
          fsChanges

vars == <<fs, conn, kind, filename, username, pc, base_dir, requested_path,
          checked, resolved, contents, stmt, executed, rows, outcome,
          fsChanges>>

----------------------------------------------------------------------------
(* Bounds of the model.                                                    *)

\* Symbolic links followed by one path resolution before it fails (ELOOP).
MaxSymlinks == 3
\* Concurrent callers in SpecConcurrent.
NumCallers == 2
\* Changes another process makes to the filesystem in SpecRace.
MaxFsChanges == 1

----------------------------------------------------------------------------
(* Paths: an absolute path is the sequence of its components; the root is  *)
(* the empty sequence.  A trailing slash is the empty component "".        *)

Root == <<>>

\* Path::new("/var/www/uploads")
BASE_DIR == <<"var", "www", "uploads">>

Parent(p) == IF p = Root THEN Root ELSE SubSeq(p, 1, Len(p) - 1)

----------------------------------------------------------------------------
(* Filesystem: a function from absolute paths to nodes.                    *)

None     == [kind |-> "none",   abs |-> FALSE, target |-> <<>>]
Dir      == [kind |-> "dir",    abs |-> FALSE, target |-> <<>>]
\* A directory the process may not search (no x permission).
Locked   == [kind |-> "locked", abs |-> FALSE, target |-> <<>>]
File     == [kind |-> "file",   abs |-> FALSE, target |-> <<>>]
Link(a, t) == [kind |-> "link", abs |-> a, target |-> t]

Node(f, p) == IF p \in DOMAIN f THEN f[p] ELSE None

Uploads  == <<"var", "www", "uploads">>
Images   == <<"var", "www", "uploads", "images">>
Logo     == <<"var", "www", "uploads", "images", "logo.png">>
Evil     == <<"var", "www", "uploads_evil">>
EvilLogo == <<"var", "www", "uploads_evil", "logo.png">>
Etc      == <<"etc">>
Passwd   == <<"etc", "passwd">>
VarEtc   == <<"var", "etc">>
VarPasswd == <<"var", "etc", "passwd">>
SrvData  == <<"srv", "data">>

Slots == {Root, <<"var">>, <<"var", "www">>, Uploads, Images, Logo, Evil,
          EvilLogo, Etc, Passwd, VarEtc, VarPasswd, <<"srv">>, SrvData,
          <<"srv", "data", "images">>,
          <<"srv", "data", "images", "logo.png">>}

\* The nodes every layout has.
Fixed == {Root, <<"var">>, <<"var", "www">>, Evil, Etc, <<"srv">>, SrvData,
          <<"srv", "data", "images">>}

UploadsNodes == {Dir, None, File, Link(TRUE, SrvData),
                 Link(FALSE, <<"uploads">>)}
ImagesNodes  == {Dir, None, Locked, Link(TRUE, Etc),
                 Link(FALSE, <<"..", "uploads_evil">>),
                 Link(FALSE, <<"images">>)}
LeafNodes    == {File, None}
VarEtcNodes  == {Dir, None}

IsDirKind(n) == n.kind \in {"dir", "locked"}

\* A node exists only below a directory.
MkFs(u, i, l, v, e) ==
  [p \in Slots |->
     IF p \in Fixed THEN Dir
     ELSE IF p = Uploads THEN u
     ELSE IF p = Images THEN (IF u = Dir THEN i ELSE None)
     ELSE IF p = Logo THEN (IF u = Dir /\ IsDirKind(i) THEN l ELSE None)
     ELSE IF p = VarEtc THEN v
     ELSE IF p = VarPasswd THEN (IF v = Dir THEN File ELSE None)
     ELSE IF p = Passwd THEN e
     ELSE File]

Layouts == {MkFs(u, i, l, v, e) : u \in UploadsNodes, i \in ImagesNodes,
                                  l \in LeafNodes, v \in VarEtcNodes,
                                  e \in LeafNodes}

WellFormed(f) ==
  \A p \in DOMAIN f :
     (p # Root /\ f[p].kind # "none") => IsDirKind(Node(f, Parent(p)))

----------------------------------------------------------------------------
(* std::fs::canonicalize: realpath(3).                                     *)

Ok(p)  == [ok |-> TRUE,  path |-> p,    err |-> "none"]
Err(e) == [ok |-> FALSE, path |-> <<>>, err |-> e]
Unset  == [ok |-> FALSE, path |-> <<>>, err |-> "unset"]

\* cur: the resolved directory so far; rest: the components still to walk;
\* hops: the symbolic links that may still be followed.
RECURSIVE Walk(_, _, _, _)
Walk(f, cur, rest, hops) ==
  IF rest = <<>> THEN Ok(cur)
  ELSE LET c == Head(rest)
           t == Tail(rest)
       IN  IF Node(f, cur).kind = "file" THEN Err("NotADirectory")
           ELSE IF c \in {"", "."} THEN Walk(f, cur, t, hops)
           ELSE IF c = ".." THEN Walk(f, Parent(cur), t, hops)
           ELSE IF Node(f, cur).kind = "locked" THEN Err("PermissionDenied")
           ELSE LET p == Append(cur, c)
                    n == Node(f, p)
                IN  IF n.kind = "none" THEN Err("NotFound")
                    ELSE IF n.kind = "link"
                      THEN IF hops = 0 THEN Err("FilesystemLoop")
                           ELSE Walk(f, IF n.abs THEN Root ELSE cur,
                                     n.target \o t, hops - 1)
                    ELSE Walk(f, p, t, hops)

canonicalize(f, p) == Walk(f, Root, p, MaxSymlinks)

----------------------------------------------------------------------------
(* The untrusted input: a path as the caller wrote it.                     *)

Rel(cs) == [abs |-> FALSE, comps |-> cs]
Abs(cs) == [abs |-> TRUE,  comps |-> cs]

Filenames ==
  { Rel(<<"images", "logo.png">>),
    Rel(<<>>),
    Rel(<<".">>),
    Rel(<<"..">>),
    Rel(<<"..", "..", "etc", "passwd">>),
    Rel(<<"..", "..", "..", "etc", "passwd">>),
    Rel(<<"..", "uploads_evil", "logo.png">>),
    Rel(<<"..", "uploads", "images", "logo.png">>),
    Rel(<<"images", "..", "images", "logo.png">>),
    Rel(<<".", "images", ".", "logo.png">>),
    Rel(<<"images">>),
    Rel(<<"images", "passwd">>),
    Rel(<<"images", "logo.png", "x">>),
    Rel(<<"missing.txt">>),
    Abs(<<"etc", "passwd">>),
    Abs(<<"var", "www", "uploads", "images", "logo.png">>) }

\* PathBuf::join: an absolute argument replaces the base; an empty one
\* leaves the base with a trailing separator.
join(base, path) ==
  IF path.abs THEN path.comps
  ELSE IF path.comps = <<>> THEN Append(base, "")
  ELSE base \o path.comps

IsPrefix(b, p) == Len(b) <= Len(p) /\ SubSeq(p, 1, Len(b)) = b

\* A comparison of the two paths as strings: "uploads" is a prefix of
\* "uploads_evil".
StrPrefixName(a, b) == a = b \/ (a = "uploads" /\ b = "uploads_evil")
starts_with_str(p, b) ==
  \/ IsPrefix(b, p)
  \/ /\ b # <<>>
     /\ Len(b) <= Len(p)
     /\ SubSeq(p, 1, Len(b) - 1) = SubSeq(b, 1, Len(b) - 1)
     /\ StrPrefixName(b[Len(b)], p[Len(b)])

\* The receiver and the argument exchanged: base_dir.starts_with(path).
starts_with_reversed(p, b) == IsPrefix(p, b)

\* Strictly below the base only.
starts_with_strict(p, b) == IsPrefix(b, p) /\ p # b

\* Path::starts_with: whole components.
starts_with(p, b) == IsPrefix(b, p)

----------------------------------------------------------------------------
(* The database behind conn, and the query.                                *)

Usernames == {"alice", "x' OR '1'='1", "a'; DROP TABLE users; --"}

Dbs == { [hasTable |-> FALSE, users |-> {}],
         [hasTable |-> TRUE,  users |-> {"alice", "bob"}] }

\* The query text is a sequence of pieces; "?1" is a positional placeholder.
query == <<"SELECT * FROM users WHERE username = ", "?1">>

\* format!("SELECT * FROM users WHERE username = '{}'", username)
format_query(u) == <<"SELECT * FROM users WHERE username = '", u, "'">>

CountPlaceholders(text) == Cardinality({i \in DOMAIN text : text[i] = "?1"})

NoStmt == [text |-> <<>>, nparams |-> 0]
NoExec == [text |-> <<>>, params |-> <<>>]

----------------------------------------------------------------------------
(* Calls.                                                                  *)

NoFile == Rel(<<"-">>)
NoUser == "-"

Calls(FS) == {[kind |-> "resolve", filename |-> f, username |-> NoUser] :
                 f \in FS}
             \cup
             {[kind |-> "query", filename |-> NoFile, username |-> u] :
                 u \in Usernames}

InitWith(CS, LS, FS) ==
  /\ fs \in LS
  /\ conn \in Dbs
  /\ \E call \in [CS -> Calls(FS)] :
       /\ kind = [c \in CS |-> call[c].kind]
       /\ filename = [c \in CS |-> call[c].filename]
       /\ username = [c \in CS |-> call[c].username]
       /\ pc = [c \in CS |-> IF call[c].kind = "resolve" THEN "canon_base"
                                                         ELSE "prepare"]
  /\ base_dir = [c \in CS |-> Unset]
  /\ requested_path = [c \in CS |-> Unset]
  /\ checked = [c \in CS |-> FALSE]
  /\ resolved = [c \in CS |-> Unset]
  /\ contents = [c \in CS |-> Unset]
  /\ stmt = [c \in CS |-> NoStmt]
  /\ executed = [c \in CS |-> NoExec]
  /\ rows = [c \in CS |-> {}]
  /\ outcome = [c \in CS |-> "pending"]
  /\ fsChanges = 0

Callers == DOMAIN pc

----------------------------------------------------------------------------
(* The path snippet, one action per statement.                             *)

\* One storage place shared by every call (a static buffer).
shared_locals(c) == CHOOSE d \in Callers : \A e \in Callers : d <= e

\* base_dir and requested_path are let bindings: each call has its own.
locals(c) == c

sqlVars == <<stmt, executed, rows>>
envVars == <<fs, conn, kind, filename, username, fsChanges>>

\* let base_dir = Path::new("/var/www/uploads").canonicalize()?;
CanonicalizeBase(c) ==
  /\ pc[c] = "canon_base"
  /\ LET r == canonicalize(fs, BASE_DIR)
     IN  /\ base_dir' = [base_dir EXCEPT ![locals(c)] = r]
         /\ IF r.ok
              THEN /\ pc' = [pc EXCEPT ![c] = "canon_req"]
                   /\ UNCHANGED outcome
              ELSE /\ pc' = [pc EXCEPT ![c] = "done"]
                   /\ outcome' = [outcome EXCEPT ![c] = "ResolutionFailed"]
  /\ UNCHANGED <<requested_path, checked, resolved, contents>>
  /\ UNCHANGED <<sqlVars, envVars>>

\* A failed canonicalization replaced by the joined path as written:
\* .canonicalize().unwrap_or(joined)
CanonicalizeRequestedLossy(c) ==
  /\ pc[c] = "canon_req"
  /\ LET j == join(base_dir[locals(c)].path, filename[c])
         r == canonicalize(fs, j)
     IN  requested_path' = [requested_path EXCEPT ![locals(c)] =
                              IF r.ok THEN r ELSE Ok(j)]
  /\ pc' = [pc EXCEPT ![c] = "check"]
  /\ UNCHANGED <<base_dir, checked, resolved, contents, outcome>>
  /\ UNCHANGED <<sqlVars, envVars>>

\* let requested_path = base_dir.join(filename).canonicalize()?;
CanonicalizeRequested(c) ==
  /\ pc[c] = "canon_req"
  /\ LET r == canonicalize(fs, join(base_dir[locals(c)].path, filename[c]))
     IN  /\ requested_path' = [requested_path EXCEPT ![locals(c)] = r]
         /\ IF r.ok
              THEN /\ pc' = [pc EXCEPT ![c] = "check"]
                   /\ UNCHANGED outcome
              ELSE /\ pc' = [pc EXCEPT ![c] = "done"]
                   /\ outcome' = [outcome EXCEPT ![c] = "ResolutionFailed"]
  /\ UNCHANGED <<base_dir, checked, resolved, contents>>
  /\ UNCHANGED <<sqlVars, envVars>>

\* The check without its return: the read follows whatever the check found.
CheckContainmentNoReturn(c) ==
  /\ pc[c] = "check"
  /\ checked' = [checked EXCEPT ![c] = TRUE]
  /\ pc' = [pc EXCEPT ![c] = "read"]
  /\ resolved' = [resolved EXCEPT ![c] = requested_path[locals(c)]]
  /\ UNCHANGED <<base_dir, requested_path, contents, outcome>>
  /\ UNCHANGED <<sqlVars, envVars>>

\* if !requested_path.starts_with(&base_dir) { return Err(...) }
CheckContainment(c) ==
  /\ pc[c] = "check"
  /\ checked' = [checked EXCEPT ![c] = TRUE]
  /\ IF starts_with(requested_path[locals(c)].path, base_dir[locals(c)].path)
       THEN /\ pc' = [pc EXCEPT ![c] = "read"]
            /\ resolved' = [resolved EXCEPT ![c] = requested_path[locals(c)]]
            /\ UNCHANGED outcome
       ELSE /\ pc' = [pc EXCEPT ![c] = "done"]
            /\ outcome' = [outcome EXCEPT ![c] = "TraversalDetected"]
            /\ UNCHANGED resolved
  /\ UNCHANGED <<base_dir, requested_path, contents>>
  /\ UNCHANGED <<sqlVars, envVars>>

\* fs::read_to_string: open(2) walks the path again, in the filesystem as it
\* is now, and reads the file it reaches.
read_to_string(f, p) ==
  LET r == canonicalize(f, p)
  IN  IF ~r.ok THEN r
      ELSE IF Node(f, r.path).kind # "file" THEN Err("IsADirectory")
      ELSE r

\* let contents = fs::read_to_string(requested_path)?;
ReadFile(c) ==
  /\ pc[c] = "read"
  /\ LET r == read_to_string(fs, requested_path[locals(c)].path)
     IN  /\ contents' = [contents EXCEPT ![c] = r]
         /\ outcome' = [outcome EXCEPT ![c] =
                          IF r.ok THEN "Ok" ELSE "ReadFailed"]
  /\ pc' = [pc EXCEPT ![c] = "done"]
  /\ UNCHANGED <<base_dir, requested_path, checked, resolved>>
  /\ UNCHANGED <<sqlVars, envVars>>

----------------------------------------------------------------------------
(* The query snippet.                                                      *)

pathVars == <<base_dir, requested_path, checked, resolved, contents>>

\* Connection::prepare: compiles the text against the schema.
prepare(d, text) ==
  IF d.hasTable THEN [ok |-> TRUE,
                      stmt |-> [text |-> text,
                                nparams |-> CountPlaceholders(text)]]
  ELSE [ok |-> FALSE, stmt |-> NoStmt]

\* The value spliced into the text, no parameter bound.
PrepareSpliced(c) ==
  /\ pc[c] = "prepare"
  /\ LET r == prepare(conn, format_query(username[c]))
     IN  /\ stmt' = [stmt EXCEPT ![c] = r.stmt]
         /\ IF r.ok
              THEN /\ pc' = [pc EXCEPT ![c] = "query"]
                   /\ UNCHANGED outcome
              ELSE /\ pc' = [pc EXCEPT ![c] = "done"]
                   /\ outcome' = [outcome EXCEPT ![c] = "PrepareFailed"]
  /\ UNCHANGED <<executed, rows>>
  /\ UNCHANGED <<pathVars, envVars>>

\* let mut stmt = conn.prepare(query)?;
Prepare(c) ==
  /\ pc[c] = "prepare"
  /\ LET r == prepare(conn, query)
     IN  /\ stmt' = [stmt EXCEPT ![c] = r.stmt]
         /\ IF r.ok
              THEN /\ pc' = [pc EXCEPT ![c] = "query"]
                   /\ UNCHANGED outcome
              ELSE /\ pc' = [pc EXCEPT ![c] = "done"]
                   /\ outcome' = [outcome EXCEPT ![c] = "PrepareFailed"]
  /\ UNCHANGED <<executed, rows>>
  /\ UNCHANGED <<pathVars, envVars>>

\* let rows = stmt.query(params![username])?;  the values are bound to the
\* placeholders, then the statement runs.
Query(c) ==
  /\ pc[c] = "query"
  /\ LET params == <<username[c]>>
     IN  IF Len(params) # stmt[c].nparams
           THEN /\ outcome' = [outcome EXCEPT ![c] = "QueryFailed"]
                /\ UNCHANGED <<executed, rows>>
           ELSE /\ executed' = [executed EXCEPT ![c] =
                                  [text |-> stmt[c].text, params |-> params]]
                /\ rows' = [rows EXCEPT ![c] =
                              {u \in conn.users : u = params[1]}]
                /\ outcome' = [outcome EXCEPT ![c] = "Ok"]
  /\ pc' = [pc EXCEPT ![c] = "done"]
  /\ UNCHANGED stmt
  /\ UNCHANGED <<pathVars, envVars>>

----------------------------------------------------------------------------
(* Another process, with write access below the base directory, replaces   *)
(* the entry "images" while a call is running.                             *)

FsChange ==
  /\ fsChanges < MaxFsChanges
  /\ fs[Uploads] = Dir
  /\ \E i \in ImagesNodes, l \in LeafNodes :
       /\ fs' = MkFs(Dir, i, l, fs[VarEtc], fs[Passwd])
       /\ fs' # fs
  /\ fsChanges' = fsChanges + 1
  /\ UNCHANGED <<conn, kind, filename, username, pc, outcome>>
  /\ UNCHANGED <<pathVars, sqlVars>>

----------------------------------------------------------------------------
(* Specifications.                                                         *)

Calling ==
  \/ \E c \in Callers : CanonicalizeBase(c)
  \/ \E c \in Callers : CanonicalizeRequested(c)
  \/ \E c \in Callers : CheckContainment(c)
  \/ \E c \in Callers : ReadFile(c)
  \/ \E c \in Callers : Prepare(c)
  \/ \E c \in Callers : Query(c)

\* One call at a time, over every layout and every input.
Init == InitWith({1}, Layouts, Filenames)
Next == Calling
Spec == Init /\ [][Next]_vars

\* Concurrent calls over an unchanging filesystem.
ConcLayouts == {MkFs(Dir, i, File, None, File) :
                  i \in {Dir, Link(TRUE, Etc)}}
ConcFilenames == { Rel(<<"images", "logo.png">>), Rel(<<>>),
                   Rel(<<"..", "uploads_evil", "logo.png">>),
                   Rel(<<"images", "passwd">>) }
InitConcurrent == InitWith(1 .. NumCallers, ConcLayouts, ConcFilenames)
SpecConcurrent == InitConcurrent /\ [][Calling]_vars

\* One call, while another process changes the filesystem.
NextRace == Calling \/ FsChange
SpecRace == Init /\ [][NextRace]_vars

----------------------------------------------------------------------------
(* Properties.                                                             *)

\* b is a prefix of p, component by component.
Within(p, b) == /\ Len(b) <= Len(p)
                /\ \A i \in 1 .. Len(b) : p[i] = b[i]

\* No "", "." or ".." component, no symbolic link on the way, and every
\* component exists.
IsCanonical(f, p) ==
  \A i \in 1 .. Len(p) :
     /\ p[i] \notin {"", ".", ".."}
     /\ Node(f, SubSeq(p, 1, i)).kind \in {"dir", "locked", "file"}
     /\ i < Len(p) => IsDirKind(Node(f, SubSeq(p, 1, i)))

Resolving == {c \in Callers : kind[c] = "resolve"}
Querying  == {c \in Callers : kind[c] = "query"}

\* Read as text, the path climbs above the directory it is joined to.
RECURSIVE Climbs(_, _)
Climbs(cs, depth) ==
  IF cs = <<>> THEN FALSE
  ELSE IF Head(cs) = ".." THEN depth = 0 \/ Climbs(Tail(cs), depth - 1)
  ELSE IF Head(cs) \in {"", "."} THEN Climbs(Tail(cs), depth)
  ELSE Climbs(Tail(cs), depth + 1)

LexEscapes(path) == ~path.abs /\ Climbs(path.comps, 0)

Range(s) == {s[i] : i \in DOMAIN s}

\* C1: whenever resolve succeeds, the path it returns is canonical and lies
\* within the canonical base directory, whole components compared.
C1_ResolvedWithinBase ==
  \A c \in Resolving :
     resolved[c].ok =>
        /\ base_dir[c] = canonicalize(fs, BASE_DIR)
        /\ base_dir[c].ok
        /\ IsCanonical(fs, base_dir[c].path)
        /\ IsCanonical(fs, resolved[c].path)
        /\ Within(resolved[c].path, base_dir[c].path)

\* C1: a path that leaves the base and comes back into it is resolved.
C1_Witness ==
  \E c \in Resolving :
     /\ resolved[c].ok
     /\ filename[c] = Rel(<<"..", "uploads", "images", "logo.png">>)
     /\ resolved[c].path = Logo

\* C2 as stated: every requested path with enough ".." to leave the base
\* ends in TraversalDetected (the base directory existing).
C2_EscapingAlwaysTraversalDetected ==
  \A c \in Resolving :
     (pc[c] = "done" /\ LexEscapes(filename[c]) /\ base_dir[c].ok)
        => outcome[c] = "TraversalDetected"

\* C2 amended: for a requested path with enough ".." to leave the base,
\* resolve returns TraversalDetected exactly when both canonicalizations
\* succeed and the target lies outside the base; it returns
\* ResolutionFailed when one of them fails, and succeeds when the target is
\* back inside the base.
C2_EscapingDecidedOnCanonicalForm ==
  \A c \in Resolving :
     (pc[c] = "done" /\ LexEscapes(filename[c])) =>
        LET b == canonicalize(fs, BASE_DIR)
            t == canonicalize(fs, BASE_DIR \o filename[c].comps)
        IN  /\ (~b.ok \/ ~t.ok) => outcome[c] = "ResolutionFailed"
            /\ (b.ok /\ t.ok /\ ~Within(t.path, b.path))
                  => outcome[c] = "TraversalDetected"
            /\ (b.ok /\ t.ok /\ Within(t.path, b.path))
                  => outcome[c] \in {"Ok", "ReadFailed"} /\ resolved[c] = t

\* C2: ../../etc/passwd is refused as a traversal where /var/etc/passwd
\* exists.
C2_Witness ==
  \E c \in Resolving :
     /\ filename[c] = Rel(<<"..", "..", "etc", "passwd">>)
     /\ outcome[c] = "TraversalDetected"

\* C3: when the joined target exists and its canonical form is within the
\* base, resolve succeeds and returns exactly the canonical form of the base
\* directory joined with the requested path.
C3_InsideResolvesToCanonicalJoin ==
  \A c \in Resolving :
     pc[c] = "done" =>
        LET b == canonicalize(fs, BASE_DIR)
            t == canonicalize(fs, join(BASE_DIR, filename[c]))
        IN  (b.ok /\ t.ok /\ Within(t.path, b.path)) =>
               /\ resolved[c] = t
               /\ outcome[c] \in {"Ok", "ReadFailed"}
               /\ Within(resolved[c].path, base_dir[c].path)

\* C3: images/../images/logo.png resolves to /var/www/uploads/images/logo.png.
C3_Witness ==
  \E c \in Resolving :
     /\ filename[c] = Rel(<<"images", "..", "images", "logo.png">>)
     /\ pc[c] = "done"
     /\ resolved[c] = Ok(<<"var", "www", "uploads", "images", "logo.png">>)

\* C4: a failed canonicalization, of the base or of the joined path, ends
\* the call with ResolutionFailed at that step: the later steps do not run,
\* the containment check is not evaluated and no path is produced.
C4_CanonicalizationFailureSurfaced ==
  \A c \in Resolving :
     LET b == canonicalize(fs, BASE_DIR)
         t == canonicalize(fs, join(b.path, filename[c]))
     IN  /\ (pc[c] = "done" /\ (~b.ok \/ ~t.ok))
               => outcome[c] = "ResolutionFailed"
         /\ (base_dir[c] # Unset /\ ~base_dir[c].ok)
               => /\ pc[c] = "done"
                  /\ outcome[c] = "ResolutionFailed"
                  /\ requested_path[c] = Unset
         /\ (requested_path[c] # Unset /\ ~requested_path[c].ok)
               => pc[c] = "done" /\ outcome[c] = "ResolutionFailed"
         /\ outcome[c] = "ResolutionFailed"
               => ~checked[c] /\ resolved[c] = Unset /\ contents[c] = Unset

\* C4: a symbolic link loop below the base ends the call.
C4_Witness ==
  \E c \in Resolving :
     /\ requested_path[c].err = "FilesystemLoop"
     /\ outcome[c] = "ResolutionFailed"

\* C5: with the base an existing directory, an empty requested path and "."
\* resolve to the canonical base directory itself.
C5_EmptyAndDotResolveToBase ==
  \A c \in Resolving :
     LET b == canonicalize(fs, BASE_DIR)
     IN  (/\ filename[c] \in {Rel(<<>>), Rel(<<".">>)}
          /\ b.ok /\ IsDirKind(Node(fs, b.path))
          /\ pc[c] = "done")
            => /\ checked[c]
               /\ resolved[c] = b
               /\ outcome[c] \notin {"ResolutionFailed", "TraversalDetected"}

\* C5: the empty path resolved against a base that is a symbolic link.
C5_Witness ==
  \E c \in Resolving :
     /\ filename[c] = Rel(<<>>)
     /\ pc[c] = "done"
     /\ resolved[c] = Ok(SrvData)

\* C6: the text prepared and executed is the same for every value, holds no
\* value, and the value is carried by the bound parameters alone.
C6_QueryTextIndependentOfValue ==
  /\ \A c, d \in Querying :
        (stmt[c] # NoStmt /\ stmt[d] # NoStmt) => stmt[c].text = stmt[d].text
  /\ \A c \in Querying :
        /\ username[c] \notin Range(stmt[c].text)
        /\ executed[c] # NoExec =>
              /\ executed[c].text = stmt[c].text
              /\ username[c] \notin Range(executed[c].text)
              /\ executed[c].params = <<username[c]>>

\* C6: two queries ran, one with a plain value and one with a quote in it.
C6_Witness ==
  \E c, d \in Querying :
     /\ username[c] = "alice"
     /\ username[d] = "x' OR '1'='1"
     /\ executed[c] # NoExec
     /\ executed[d] # NoExec

\* C8: the file is read only after both canonicalizations succeeded and the
\* containment check passed, the query runs only on a prepared statement,
\* and a call that ended in an error returned no path, read no file and ran
\* no query.
C8_FailsClosed ==
  \A c \in Callers :
     /\ (pc[c] = "read" \/ contents[c] # Unset) =>
           /\ base_dir[c].ok
           /\ requested_path[c].ok
           /\ checked[c]
           /\ Within(requested_path[c].path, base_dir[c].path)
     /\ (pc[c] = "query" \/ executed[c] # NoExec) =>
           conn.hasTable /\ stmt[c] # NoStmt
     /\ outcome[c] \in {"ResolutionFailed", "TraversalDetected",
                        "PrepareFailed", "QueryFailed"} =>
           /\ resolved[c] = Unset
           /\ contents[c] = Unset
           /\ executed[c] = NoExec
           /\ rows[c] = {}

\* C8: a symbolic link below the base that points outside it is refused,
\* and nothing is read.
C8_Witness ==
  \E c \in Resolving :
     /\ fs[Images] = Link(TRUE, Etc)
     /\ filename[c] = Rel(<<"images", "passwd">>)
     /\ outcome[c] = "TraversalDetected"
     /\ contents[c] = Unset

\* What one call returns when it runs alone.
ResolveAlone(f, name) ==
  LET b == canonicalize(f, BASE_DIR)
      r == canonicalize(f, join(b.path, name))
      k == read_to_string(f, r.path)
      none == [outcome |-> "ResolutionFailed", resolved |-> Unset,
               contents |-> Unset, executed |-> NoExec, rows |-> {}]
  IN  IF ~b.ok \/ ~r.ok THEN none
      ELSE IF ~starts_with(r.path, b.path)
        THEN [none EXCEPT !.outcome = "TraversalDetected"]
      ELSE [none EXCEPT !.outcome = IF k.ok THEN "Ok" ELSE "ReadFailed",
                        !.resolved = r, !.contents = k]

QueryAlone(d, u) ==
  LET s == prepare(d, query)
  IN  [outcome |-> IF s.ok THEN "Ok" ELSE "PrepareFailed",
       resolved |-> Unset, contents |-> Unset,
       executed |-> IF s.ok THEN [text |-> query, params |-> <<u>>]
                            ELSE NoExec,
       rows |-> IF s.ok THEN {x \in d.users : x = u} ELSE {}]

Returned(c) == [outcome |-> outcome[c], resolved |-> resolved[c],
                contents |-> contents[c], executed |-> executed[c],
                rows |-> rows[c]]

\* C9: with concurrent calls interleaved in any order, each call returns
\* what it returns alone, no step changes the filesystem or the database,
\* and a step changes the state of one call only.
C9_CallsIndependent ==
  /\ [](\A c \in Callers :
           pc[c] = "done" =>
              Returned(c) = IF kind[c] = "resolve"
                              THEN ResolveAlone(fs, filename[c])
                              ELSE QueryAlone(conn, username[c]))
  /\ [][/\ fs' = fs
        /\ conn' = conn
        /\ \A c, d \in Callers :
              (c # d /\ <<pc[c], Returned(c)>>' # <<pc[c], Returned(c)>>)
                 => <<pc[d], Returned(d), stmt[d]>>'
                       = <<pc[d], Returned(d), stmt[d]>>]_vars

\* C9: two resolve calls with different inputs both ended, one with the
\* file read and one refused.
C9_Witness ==
  \E c, d \in Resolving :
     /\ pc[c] = "done" /\ pc[d] = "done"
     /\ outcome[c] = "Ok"
     /\ outcome[d] = "TraversalDetected"

\* C10 as stated: the file that is read lies inside the base directory,
\* whatever another process does to the filesystem meanwhile.
C10_ReadFileInsideBase ==
  \A c \in Resolving :
     contents[c].ok => Within(contents[c].path, base_dir[c].path)

====
